---------------------------- MODULE Spec2Model ----------------------------
(***************************************************************************)
(* rl_cleaner_mvp.py: a grid-cleaning environment (BaseEnv), a replay      *)
(* buffer (ReplayBuf) and the DQN training loop (train).                   *)
(*                                                                         *)
(* Rewards are floats in the source; here they are integers in units of    *)
(* 0.001 (5.0 is 5000, -0.001 is -1, -0.05 is -50).                        *)
(***************************************************************************)
EXTENDS Integers, Sequences, FiniteSets, TLC

VARIABLES
  env,        \* the BaseEnv object: [N, grid0, grid, pos, steps]
  call,       \* the last call made on the environment: <<"reset">> or <<"step", a>>
  ret,        \* the tuple that call returned
  pre,        \* the BaseEnv object as it was when that call was made
  cleans,     \* how many step calls since the last reset returned CLEAN_R
  rb,         \* the ReplayBuf object: [buf, maxlen] (a deque and its maxlen)
  pushed,     \* every item pushed to rb so far, in push order
  pc,         \* where train() is: "off", "start", "for", "while", "returned", "raised";
              \* after it, where main is: "rollout", "exit"
  episodes,   \* train(): argument episodes
  demo,       \* train(): argument demo
  weights,    \* the file weight_path: NoFile or the parameters it holds
  log,        \* the file log_csv: NoFile or its lines
  policy,     \* parameters of the policy network
  target,     \* parameters of the target network
  eps,        \* train(): eps, in units of 0.000001
  steps,      \* train(): steps, the cumulative step counter
  ep,         \* train(): ep, the episode of the for loop
  state,      \* train(): state, the flattened observation
  total_r,    \* train(): total_r, in units of 0.001
  done,       \* train(): done
  err,        \* the exception that ended train(), or NoError
  sampled,    \* <<len(rb)>> as it was at the last rb.sample call, or NoSample
  synced,     \* value of steps at the last target sync of the loop (0: none yet)
  files0      \* the files weight_path and log_csv as they were when train() was called

envVars == <<env, call, ret, pre, cleans>>
bufVars == <<rb, pushed>>
trainVars == <<pc, episodes, demo, weights, log, policy, target, eps, steps, ep,
               state, total_r, done, err, sampled, synced, files0>>
vars == <<envVars, bufVars, trainVars>>

---------------------------------------------------------------------------
(* Bounds of the model. *)

\* grid sizes 1..MaxN
MaxN == 2
\* at most MaxDirt contaminated cells in the origin grid
MaxDirt == 2
\* step() is called while self.steps < MaxSteps (the counter itself is unbounded)
MaxSteps == 402
\* ReplayBuf capacities 0..MaxCap, MaxPush pushes of items 0..MaxItem
MaxCap == 3
MaxPush == 5
MaxItem == 1
\* train() runs on grids of size 1..MaxTrainN
MaxTrainN == 1
\* train() is asked for 0..MaxEpisodes episodes, or for as many as the sync interval
MaxEpisodes == 2

---------------------------------------------------------------------------
(* BaseEnv *)

CLEAN_R == 5000
STEP_COST == -1
BORDER_PEN == -50
\* the horizon of `done = self.steps >= 400 or ...`
HORIZON == 400

\* actions: 0 UP, 1 DOWN, 2 LEFT, 3 RIGHT, 4 CLEAN  (spaces.Discrete(5))
N_ACTIONS == 5
Actions == 0 .. (N_ACTIONS - 1)
CLEAN == 4

Cells(n) == (0 .. n - 1) \X (0 .. n - 1)

\* np.count_nonzero(grid)
CountNonzero(g) == Cardinality({c \in DOMAIN g : g[c] # 0})

Min(a, b) == IF a < b THEN a ELSE b
Max(a, b) == IF a > b THEN a ELSE b

\* {0:(-1,0),1:(1,0),2:(0,-1),3:(0,1)}.get(a,(0,0))
Delta(a) ==
  CASE a = 0 -> <<-1, 0>>
    [] a = 1 -> <<1, 0>>
    [] a = 2 -> <<0, -1>>
    [] a = 3 -> <<0, 1>>
    [] OTHER -> <<0, 0>>

ClampWrap(x, n) == x % n

\* min(max(x, 0), N - 1)
Clamp(x, n) == Min(Max(x, 0), n - 1)

EnvResetKeepGrid(e) ==
  LET e2 == [e EXCEPT !.pos = <<e.N \div 2, e.N \div 2>>, !.steps = 0]
  IN  [env |-> e2, ret |-> <<e2.grid, <<>> >>]

\* BaseEnv.reset: the new object state and the returned (obs, info)
EnvReset(e) ==
  LET e2 == [e EXCEPT !.grid = e.grid0,
                      !.pos = <<e.N \div 2, e.N \div 2>>,
                      !.steps = 0]
  IN  [env |-> e2, ret |-> <<e2.grid, <<>> >>]

StepEffectCostAdded(e, a) ==
  IF a = CLEAN /\ e.grid[e.pos] = 1
  THEN [grid |-> [e.grid EXCEPT ![e.pos] = 0], pos |-> e.pos, r |-> STEP_COST + CLEAN_R]
  ELSE LET d  == Delta(a)
           nr == Clamp(e.pos[1] + d[1], e.N)
           nc == Clamp(e.pos[2] + d[2], e.N)
       IN  [grid |-> e.grid,
            pos  |-> <<nr, nc>>,
            r    |-> IF <<nr, nc>> = e.pos THEN STEP_COST + BORDER_PEN ELSE STEP_COST]

StepEffectNoPenalty(e, a) ==
  IF a = CLEAN /\ e.grid[e.pos] = 1
  THEN [grid |-> [e.grid EXCEPT ![e.pos] = 0], pos |-> e.pos, r |-> CLEAN_R]
  ELSE LET d  == Delta(a)
           nr == Clamp(e.pos[1] + d[1], e.N)
           nc == Clamp(e.pos[2] + d[2], e.N)
       IN  [grid |-> e.grid, pos |-> <<nr, nc>>, r |-> STEP_COST]

StepEffectFromOrigin(e, a) ==
  IF a = CLEAN /\ e.grid[e.pos] = 1
  THEN [grid |-> [e.grid0 EXCEPT ![e.pos] = 0], pos |-> e.pos, r |-> CLEAN_R]
  ELSE LET d  == Delta(a)
           nr == Clamp(e.pos[1] + d[1], e.N)
           nc == Clamp(e.pos[2] + d[2], e.N)
       IN  [grid |-> e.grid,
            pos  |-> <<nr, nc>>,
            r    |-> IF <<nr, nc>> = e.pos THEN STEP_COST + BORDER_PEN ELSE STEP_COST]

\* the reward and the cell/position effect of BaseEnv.step, lines 87-97
StepEffect(e, a) ==
  IF a = CLEAN /\ e.grid[e.pos] = 1
  THEN [grid |-> [e.grid EXCEPT ![e.pos] = 0], pos |-> e.pos, r |-> CLEAN_R]
  ELSE LET d  == Delta(a)
           nr == Clamp(e.pos[1] + d[1], e.N)
           nc == Clamp(e.pos[2] + d[2], e.N)
       IN  [grid |-> e.grid,
            pos  |-> <<nr, nc>>,
            r    |-> IF <<nr, nc>> = e.pos THEN STEP_COST + BORDER_PEN ELSE STEP_COST]

DoneAfterHorizon(k, g) == k > HORIZON \/ CountNonzero(g) = 0

DoneAtHorizonOnly(k, g) == k = HORIZON \/ CountNonzero(g) = 0

\* done = self.steps >= 400 or np.count_nonzero(self.grid) == 0
Done(k, g) == k >= HORIZON \/ CountNonzero(g) = 0

\* BaseEnv.step: the new object state and the returned (obs, r, done, False, info)
EnvStep(e, a) ==
  LET f  == StepEffect(e, a)
      e2 == [e EXCEPT !.grid = f.grid, !.pos = f.pos, !.steps = e.steps + 1]
  IN  [env |-> e2,
       ret |-> <<e2.grid, f.r, Done(e2.steps, e2.grid), FALSE, <<>> >>]

\* the caller's count of the CLEAN_R rewards that step has returned
CleansAfter(c, r) == IF r = CLEAN_R THEN c + 1 ELSE c

\* the grids a constructor can be given: SyntheticEnv places `dirt` cells by
\* random.sample (distinct cells), SatelliteEnv takes any binary mask
Grids(n) ==
  {g \in [Cells(n) -> {0, 1}] : CountNonzero(g) <= MaxDirt}

\* BaseEnv.__init__: stores grid0, N and calls self.reset()
NewEnv(n, g) ==
  EnvReset([N |-> n, grid0 |-> g, grid |-> g, pos |-> <<0, 0>>, steps |-> 0]).env

---------------------------------------------------------------------------
(* ReplayBuf *)

\* default of ReplayBuf.__init__(cap)
CAP_DEFAULT == 40000

\* ReplayBuf.__init__: collections.deque(maxlen=cap)
NewBuf(cap) == [buf |-> <<>>, maxlen |-> cap]

BufPushNoEvict(b, x) ==
  IF Len(b.buf) >= b.maxlen THEN b ELSE [b EXCEPT !.buf = Append(b.buf, x)]

\* ReplayBuf.push: deque.append on a deque with maxlen (a full deque drops its
\* leftmost item; a deque of maxlen 0 stays empty)
BufPush(b, x) ==
  IF b.maxlen = 0 THEN b
  ELSE IF Len(b.buf) = b.maxlen THEN [b EXCEPT !.buf = Append(Tail(b.buf), x)]
  ELSE [b EXCEPT !.buf = Append(b.buf, x)]

\* ReplayBuf.__len__
BufLen(b) == Len(b.buf)

\* ReplayBuf.sample: random.sample(self.buf, bs) raises ValueError when the
\* sample is larger than the population
SampleRaises(b, bs) == bs > Len(b.buf)

---------------------------------------------------------------------------
(* Values of the variables of the parts that a specification leaves alone. *)

\* a file that does not exist
NoFile == [exists |-> FALSE, content |-> <<>>]
\* a file that holds content c
File(c) == [exists |-> TRUE, content |-> c]

\* network parameters: the tensors are named by where they come from (base)
\* and by how many optimizer updates they have received since
Params(b, n) == [base |-> b, updates |-> n]
NoParams == Params("none", 0)

NoError == "NoError"
NoSample == <<>>

TrainOff ==
  /\ pc = "off" /\ episodes = 0 /\ demo = FALSE /\ weights = NoFile /\ log = NoFile
  /\ policy = NoParams /\ target = NoParams /\ eps = 0 /\ steps = 0 /\ ep = 0
  /\ state = <<>> /\ total_r = 0 /\ done = FALSE /\ err = NoError
  /\ sampled = NoSample /\ synced = 0
  /\ files0 = [weights |-> NoFile, log |-> NoFile]

BufOff == rb = NewBuf(0) /\ pushed = <<>>

---------------------------------------------------------------------------
(* The environment on its own: any sequence of reset() and step(a). *)

InitEnv ==
  /\ TrainOff /\ BufOff
  /\ \E n \in 1 .. MaxN : \E g \in Grids(n) : env = NewEnv(n, g)
  /\ call = <<"reset">>
  /\ ret = <<env.grid, <<>> >>
  /\ pre = env
  /\ cleans = 0

Reset ==
  /\ env' = EnvReset(env).env
  /\ ret' = EnvReset(env).ret
  /\ call' = <<"reset">>
  /\ pre' = env
  /\ cleans' = 0
  /\ UNCHANGED <<bufVars, trainVars>>

Step ==
  /\ env.steps < MaxSteps
  /\ \E a \in Actions :
       /\ env' = EnvStep(env, a).env
       /\ ret' = EnvStep(env, a).ret
       /\ call' = <<"step", a>>
       /\ cleans' = CleansAfter(cleans, EnvStep(env, a).ret[2])
  /\ pre' = env
  /\ UNCHANGED <<bufVars, trainVars>>

NextEnv == Reset \/ Step

SpecEnv == InitEnv /\ [][NextEnv]_vars

---------------------------------------------------------------------------
(* The replay buffer on its own: ReplayBuf(cap) and any sequence of pushes. *)

Items == 0 .. MaxItem

EnvOff ==
  /\ env = NewEnv(1, [c \in Cells(1) |-> 0])
  /\ call = <<"reset">> /\ ret = <<env.grid, <<>> >> /\ pre = env /\ cleans = 0

InitBuf ==
  /\ EnvOff /\ TrainOff
  /\ \E cap \in 0 .. MaxCap : rb = NewBuf(cap)
  /\ pushed = <<>>

Push ==
  /\ Len(pushed) < MaxPush
  /\ \E x \in Items :
       /\ rb' = BufPush(rb, x)
       /\ pushed' = Append(pushed, x)
  /\ UNCHANGED <<envVars, trainVars>>

NextBuf == Push

SpecBuf == InitBuf /\ [][NextBuf]_vars

---------------------------------------------------------------------------
(* train() *)

\* eps = 0.05 if demo else 1.0; the floor of max(eps*decay, 0.05)
EPS_DEMO == 50000
EPS_START == 1000000
EPS_MIN == 50000
\* decay = 0.997, as a multiple of 0.001
DECAY == 997
\* sync = 750
SYNC == 750
\* len(rb) >= 64
MIN_BUF == 64
\* rb.sample(64)
BATCH == 64

\* DQN(inp, n_act): two freshly constructed networks have their own random
\* parameters
INIT_POLICY == Params("policy_init", 0)
INIT_TARGET == Params("target_init", 0)
\* the parameters a weights file left by an earlier run holds
SAVED == Params("saved", 0)

\* lines of the reward log
Header == [kind |-> "header", ep |-> 0, reward |-> 0]
Row(e, r) == [kind |-> "row", ep |-> e, reward |-> r]

\* the keyword parameters of pathlib.Path.write_text(data, ...)
WriteTextKeywords == {"encoding", "errors", "newline"}

\* Path.write_text(data, **kw): a keyword the method does not have raises
\* TypeError before the file is touched; otherwise the file is replaced by data
WriteText(f, data, kw) ==
  IF kw \subseteq WriteTextKeywords
  THEN [raised |-> FALSE, file |-> File(data)]
  ELSE [raised |-> TRUE, file |-> f]

\* f"{total_r:.2f}": thousandths rounded to the nearest hundredth
Fmt2(x) == IF x >= 0 THEN (x + 5) \div 10 ELSE -((-x + 5) \div 10)

\* obs.reshape(-1): the rows of the grid one after the other
Flatten(g, n) == [i \in 1 .. n * n |-> g[<<(i - 1) \div n, (i - 1) % n>>]]

\* the transition (state, a, r, next_state, done) of the k-th step of the run;
\* the loop never looks into a stored transition, and the model keeps of it
\* the number of the step that made it
Transition(k) == k

StoreAlways(dm) == TRUE

\* if not demo: rb.push(...)
StoreGuard(dm) == ~dm

LearnGuardOffByOne(dm, n) == ~dm /\ n >= MIN_BUF - 1

LearnGuardLate(dm, n) == ~dm /\ n > MIN_BUF

\* if not demo and len(rb) >= 64
LearnGuard(dm, n) == ~dm /\ n >= MIN_BUF

\* loss.backward(); opt.step(): one more optimizer update of the policy
Learn(p) == [p EXCEPT !.updates = @ + 1]

\* if steps % sync == 0
SyncDue(k) == k % SYNC = 0

TargetTracksPolicy(sync, p, t) == p

\* if steps % sync == 0: target.load_state_dict(policy.state_dict())
TargetAfter(sync, p, t) == IF sync THEN p ELSE t

\* eps = max(eps*decay, 0.05)
Decay(e) == Max((e * DECAY) \div 1000, EPS_MIN)

EpisodeCounts == (0 .. MaxEpisodes) \cup {SYNC}

InitTrain ==
  /\ \E n \in 1 .. MaxTrainN : \E g \in Grids(n) : env = NewEnv(n, g)
  /\ call = <<"reset">> /\ ret = <<env.grid, <<>> >> /\ pre = env /\ cleans = 0
  /\ BufOff
  /\ pc = "start"
  /\ episodes \in EpisodeCounts
  /\ demo \in BOOLEAN
  /\ weights \in {NoFile, File(SAVED)}
  /\ log \in {NoFile, File(<<Header>>)}
  /\ policy = NoParams /\ target = NoParams /\ eps = 0 /\ steps = 0 /\ ep = 0
  /\ state = <<>> /\ total_r = 0 /\ done = FALSE /\ err = NoError
  /\ sampled = NoSample /\ synced = 0
  /\ files0 = [weights |-> weights, log |-> log]

\* lines 157-164: networks, weights, buffer, constants, header of the log
TrainInit ==
  /\ pc = "start"
  /\ policy' = IF weights.exists THEN weights.content ELSE INIT_POLICY
  /\ target' = policy'
  /\ rb' = NewBuf(CAP_DEFAULT)
  /\ pushed' = <<>>
  /\ eps' = IF demo THEN EPS_DEMO ELSE EPS_START
  /\ steps' = 0
  /\ log' = IF ~log.exists THEN WriteText(log, <<Header>>, {}).file ELSE log
  /\ pc' = "for"
  /\ UNCHANGED <<envVars, episodes, demo, weights, ep, state, total_r, done, err,
                 sampled, synced, files0>>

\* lines 165-166: the next episode of `for ep in range(1, episodes+1)`
EpisodeStart ==
  /\ pc = "for" /\ ep < episodes
  /\ ep' = ep + 1
  /\ env' = EnvReset(env).env
  /\ ret' = EnvReset(env).ret
  /\ call' = <<"reset">>
  /\ pre' = env
  /\ cleans' = 0
  /\ state' = Flatten(EnvReset(env).ret[1], env.N)
  /\ total_r' = 0
  /\ done' = FALSE
  /\ pc' = "while"
  /\ UNCHANGED <<bufVars, episodes, demo, weights, log, policy, target, eps, steps,
                 err, sampled, synced, files0>>

\* lines 167-178: one iteration of `while not done`. The action is the random
\* one or the policy's argmax: any of the actions.
Iteration ==
  /\ pc = "while" /\ ~done
  /\ \E a \in Actions :
       LET s      == EnvStep(env, a)
           rb1    == IF StoreGuard(demo) THEN BufPush(rb, Transition(steps + 1)) ELSE rb
           steps1 == steps + 1
           learn  == LearnGuard(demo, BufLen(rb1))
           raises == learn /\ SampleRaises(rb1, BATCH)
           pol1   == IF learn /\ ~raises THEN Learn(policy) ELSE policy
           sync   == ~raises /\ SyncDue(steps1)
       IN  /\ env' = s.env
           /\ ret' = s.ret
           /\ call' = <<"step", a>>
           /\ pre' = env
           /\ cleans' = CleansAfter(cleans, s.ret[2])
           /\ rb' = rb1
           /\ pushed' = IF StoreGuard(demo) THEN Append(pushed, Transition(steps + 1))
                        ELSE pushed
           /\ state' = Flatten(s.ret[1], env.N)
           /\ total_r' = total_r + s.ret[2]
           /\ steps' = steps1
           /\ done' = s.ret[3]
           /\ sampled' = IF learn THEN <<BufLen(rb1)>> ELSE sampled
           /\ policy' = pol1
           /\ target' = TargetAfter(sync, pol1, target)
           /\ synced' = IF sync THEN steps1 ELSE synced
           /\ pc' = IF raises THEN "raised" ELSE "while"
           /\ err' = IF raises THEN "ValueError" ELSE err
  /\ UNCHANGED <<episodes, demo, weights, log, eps, ep, files0>>

\* lines 180-183: the log line of the episode, then the decay of eps
EpisodeEnd ==
  /\ pc = "while" /\ done
  /\ LET w == WriteText(log, <<Row(ep, Fmt2(total_r))>>, {"append"})
     IN  IF w.raised
         THEN /\ pc' = "raised"
              /\ err' = "TypeError"
              /\ UNCHANGED <<log, eps>>
         ELSE /\ log' = w.file
              /\ eps' = IF ~demo THEN Decay(eps) ELSE eps
              /\ pc' = "for"
              /\ UNCHANGED err
  /\ UNCHANGED <<envVars, bufVars, episodes, demo, weights, policy, target, steps, ep,
                 state, total_r, done, sampled, synced, files0>>

\* lines 184-185: after the last episode
Save ==
  /\ pc = "for" /\ ep = episodes
  /\ weights' = IF ~demo THEN File(policy) ELSE weights
  /\ pc' = "returned"
  /\ UNCHANGED <<envVars, bufVars, episodes, demo, log, policy, target, eps, steps, ep,
                 state, total_r, done, err, sampled, synced, files0>>

\* main, line 210: train() has returned the agent; the final rollout starts
RolloutStart ==
  /\ pc = "returned"
  /\ env' = EnvReset(env).env
  /\ ret' = EnvReset(env).ret
  /\ call' = <<"reset">>
  /\ pre' = env
  /\ cleans' = 0
  /\ state' = Flatten(EnvReset(env).ret[1], env.N)
  /\ done' = FALSE
  /\ pc' = "rollout"
  /\ UNCHANGED <<bufVars, episodes, demo, weights, log, policy, target, eps, steps, ep,
                 total_r, err, sampled, synced, files0>>

\* main, lines 211-213: one iteration of the rollout's `while not done`; the
\* action is the agent's argmax: any of the actions
RolloutStep ==
  /\ pc = "rollout" /\ ~done
  /\ \E a \in Actions :
       LET s == EnvStep(env, a)
       IN  /\ env' = s.env
           /\ ret' = s.ret
           /\ call' = <<"step", a>>
           /\ pre' = env
           /\ cleans' = CleansAfter(cleans, s.ret[2])
           /\ state' = Flatten(s.ret[1], env.N)
           /\ done' = s.ret[3]
  /\ UNCHANGED <<bufVars, pc, episodes, demo, weights, log, policy, target, eps, steps,
                 ep, total_r, err, sampled, synced, files0>>

\* main, line 214: the rollout is over
RolloutEnd ==
  /\ pc = "rollout" /\ done
  /\ pc' = "exit"
  /\ UNCHANGED <<envVars, bufVars, episodes, demo, weights, log, policy, target, eps,
                 steps, ep, state, total_r, done, err, sampled, synced, files0>>

NextTrain ==
  \/ TrainInit \/ EpisodeStart \/ Iteration \/ EpisodeEnd \/ Save
  \/ RolloutStart \/ RolloutStep \/ RolloutEnd

SpecTrain == InitTrain /\ [][NextTrain]_vars

---------------------------------------------------------------------------
(* Properties of the environment. *)

IsStep == call[1] = "step"
IsReset == call[1] = "reset"
Arg == call[2]
Reward == ret[2]
DoneFlag == ret[3]

\* C1: both coordinates of the agent position are always in 0..N-1, and a
\* step whose move would cross a border leaves that coordinate on the border
\* it started from (it is clamped, it does not wrap to the opposite side).
C1_PositionInBounds ==
  /\ env.pos[1] \in 0 .. env.N - 1
  /\ env.pos[2] \in 0 .. env.N - 1
  /\ (IsStep /\ Arg = 0 /\ pre.pos[1] = 0) => env.pos[1] = 0
  /\ (IsStep /\ Arg = 1 /\ pre.pos[1] = env.N - 1) => env.pos[1] = env.N - 1
  /\ (IsStep /\ Arg = 2 /\ pre.pos[2] = 0) => env.pos[2] = 0
  /\ (IsStep /\ Arg = 3 /\ pre.pos[2] = env.N - 1) => env.pos[2] = env.N - 1

\* a move against the upper border of a grid with more than one row
C1_Witness ==
  IsStep /\ Arg = 0 /\ env.N >= 2 /\ pre.pos[1] = 0 /\ env.pos = pre.pos

\* C2: every step call adds exactly 1 to the step count, and the done flag
\* it returns is true exactly when the count has then reached 400 or no
\* contaminated cell is left.
C2_StepCountAndDone ==
  IsStep =>
    /\ env.steps = pre.steps + 1
    /\ DoneFlag = (env.steps >= 400 \/ \A c \in Cells(env.N) : env.grid[c] = 0)

\* the call that reaches the horizon with contamination left
C2_Witness ==
  IsStep /\ env.steps = 400 /\ DoneFlag /\ (\E c \in Cells(env.N) : env.grid[c] = 1)

\* C3: CLEAN on a contaminated cell marks that cell clean, lowers the
\* contaminated-cell count by exactly one, returns exactly 5.0 and leaves the
\* position and every other cell unchanged.
C3_CleanContaminated ==
  (IsStep /\ Arg = CLEAN /\ pre.grid[pre.pos] = 1) =>
    /\ env.grid[pre.pos] = 0
    /\ \A c \in Cells(env.N) : c # pre.pos => env.grid[c] = pre.grid[c]
    /\ CountNonzero(env.grid) = CountNonzero(pre.grid) - 1
    /\ Reward = 5000
    /\ env.pos = pre.pos

\* a successful CLEAN that leaves another contaminated cell behind
C3_Witness ==
  /\ IsStep /\ Arg = CLEAN /\ pre.grid[pre.pos] = 1
  /\ CountNonzero(env.grid) >= 1

\* C4: CLEAN on an already-clean cell returns exactly the baseline step cost
\* -0.001 (no border penalty, no clean reward) and leaves the grid and the
\* position unchanged.
C4_CleanOnCleanCell ==
  (IsStep /\ Arg = CLEAN /\ pre.grid[pre.pos] = 0) =>
    /\ Reward = -1
    /\ env.grid = pre.grid
    /\ env.pos = pre.pos

\* the direction each directional action names: UP, DOWN, LEFT, RIGHT
Dir(a) ==
  IF a = 0 THEN <<-1, 0>> ELSE IF a = 1 THEN <<1, 0>>
  ELSE IF a = 2 THEN <<0, -1>> ELSE <<0, 1>>

Target(a) == <<pre.pos[1] + Dir(a)[1], pre.pos[2] + Dir(a)[2]>>

\* C5: a directional action whose target cell is outside the grid leaves the
\* position unchanged and returns step cost plus border penalty (-0.051); one
\* whose target is inside moves the agent to the target and returns the step
\* cost alone (-0.001); the grid is unchanged in both cases.
C5_DirectionalMove ==
  (IsStep /\ Arg \in 0 .. 3) =>
    /\ env.grid = pre.grid
    /\ IF Target(Arg) \in Cells(env.N)
       THEN env.pos = Target(Arg) /\ Reward = -1
       ELSE env.pos = pre.pos /\ Reward = -1 + -50

\* a move that hit the border of a grid in which other moves are possible
C5_Witness ==
  IsStep /\ Arg \in 0 .. 3 /\ env.N >= 2 /\ Target(Arg) \notin Cells(env.N)

\* C6: a step never turns a clean cell into a contaminated one, so within an
\* episode the set of contaminated cells only shrinks and the count never
\* increases.
C6_CleanStaysClean ==
  IsStep =>
    /\ \A c \in Cells(env.N) : pre.grid[c] = 0 => env.grid[c] = 0
    /\ CountNonzero(env.grid) <= CountNonzero(pre.grid)

\* a second cell is cleaned while an earlier cleaned one is still clean
C6_Witness ==
  /\ IsStep /\ Arg = CLEAN /\ pre.grid[pre.pos] = 1
  /\ \E c \in Cells(env.N) : env.grid0[c] = 1 /\ pre.grid[c] = 0 /\ env.grid[c] = 0

\* C7: reset() returns the origin grid (the cells cleaned before are
\* contaminated again), puts the agent on the centre cell and sets the step
\* count to 0; no call modifies the origin grid.
C7_ResetRestoresOrigin ==
  /\ env.grid0 = pre.grid0
  /\ IsReset =>
       /\ ret[1] = pre.grid0
       /\ env.grid = pre.grid0
       /\ env.pos = <<env.N \div 2, env.N \div 2>>
       /\ env.steps = 0

\* a reset after cells were cleaned and the agent had left the centre
C7_Witness ==
  /\ IsReset /\ pre.steps > 0
  /\ pre.grid # pre.grid0
  /\ pre.pos # <<env.N \div 2, env.N \div 2>>

---------------------------------------------------------------------------
(* Properties of the replay buffer. *)

\* the last n items of a sequence
LastN(q, n) == SubSeq(q, Len(q) - n + 1, Len(q))

\* C8: the buffer never holds more than its capacity C, and after k pushes
\* it holds exactly the most recent min(k, C) pushed items in push order (a
\* push on a full buffer evicts the oldest item).
C8_BoundedFifo ==
  /\ BufLen(rb) <= rb.maxlen
  /\ rb.buf = LastN(pushed, Min(Len(pushed), rb.maxlen))

\* a push on a full buffer evicted an item that differs from the one kept
C8_Witness ==
  /\ rb.maxlen >= 2
  /\ Len(pushed) > rb.maxlen
  /\ pushed[Len(pushed) - rb.maxlen] # pushed[Len(pushed) - rb.maxlen + 1]

---------------------------------------------------------------------------
(* Properties of the training loop. *)

Ended == pc \in {"returned", "raised"}

\* C9: rb.sample(64) is never called while the replay buffer holds fewer than
\* 64 transitions, in demo mode or not, so the run never ends with the
\* ValueError of an oversized sample.
C9_SampleGuarded ==
  /\ sampled # NoSample => sampled[1] >= 64
  /\ err # "ValueError"

\* a learn step has sampled from a buffer of at least 64 transitions
C9_Witness ==
  pc = "while" /\ sampled # NoSample /\ sampled[1] >= 64 /\ policy.updates >= 1

Completed == IF pc = "while" \/ err = "ValueError" THEN ep - 1 ELSE ep

Running == pc \notin {"off", "start"}

\* 1.0 after k updates eps = max(eps * 0.997, 0.05), in units of 0.000001
RECURSIVE EpsAfter(_)
EpsAfter(k) ==
  IF k = 0 THEN 1000000
  ELSE LET e == (EpsAfter(k - 1) * 997) \div 1000 IN IF e > 50000 THEN e ELSE 50000

\* C11: in training mode eps starts at 1.0 and is updated exactly once after
\* each completed episode to max(eps * 0.997, 0.05), so after k completed
\* episodes it is the k-fold update of 1.0 (never larger than before, never
\* below 0.05); in demo mode eps is 0.05 for the whole run.
C11_EpsSchedule ==
  Running =>
    IF demo THEN eps = 50000
    ELSE /\ eps = EpsAfter(Completed)
         /\ eps >= 50000
         /\ eps <= 1000000

\* C12: in demo mode no transition is pushed, no sample is drawn and no
\* gradient update is applied (the policy keeps the parameters it was
\* initialised with), and the weights file stays as it was at the call.
C12_DemoNoLearning ==
  (demo /\ Running) =>
    /\ rb.buf = <<>>
    /\ pushed = <<>>
    /\ sampled = NoSample
    /\ policy.updates = 0
    /\ policy.base = IF files0.weights.exists THEN "saved" ELSE "policy_init"
    /\ weights = files0.weights

\* a demo episode that is longer than the occupancy training would need to learn
C12_Witness ==
  demo /\ pc = "while" /\ steps >= 64 /\ ~files0.weights.exists

\* C13: in a run that started with no log file, after k completed episodes
\* the log holds the header row followed by exactly one data row for each of
\* the episodes 1..k.
C13_LogRows ==
  (Running /\ ~files0.log.exists) =>
    /\ log.exists
    /\ Len(log.content) = Completed + 1
    /\ log.content[1].kind = "header"
    /\ \A k \in 1 .. Completed :
         log.content[k + 1].kind = "row" /\ log.content[k + 1].ep = k

\* C14: no step of a training run of E >= 1 episodes, the log write of an
\* episode included, ends the run with an exception before the end of run,
\* where the policy parameters are written to the weights file.
C14_RunNotAborted ==
  /\ (~demo /\ episodes >= 1) => pc # "raised"
  /\ (~demo /\ episodes >= 1 /\ pc \in {"returned", "rollout", "exit"}) =>
       (ep = episodes /\ weights = File(policy))

\* the parameters the policy starts from: the weights file, when there is one
InitialPolicy ==
  IF files0.weights.exists THEN files0.weights.content ELSE Params("policy_init", 0)

\* C15: the target parameters are those of the policy at the most recent
\* sync or, before the first sync, at initialisation (the loaded weights,
\* when there are any); learn steps do not change them.
C15_TargetIsSnapshot ==
  Running =>
    IF synced = 0 THEN target = InitialPolicy
    ELSE /\ target.base = InitialPolicy.base
         /\ target.updates = IF demo \/ synced < 64 THEN 0 ELSE synced - 63

\* learn steps have changed the policy that was loaded, and not the target
C15_Witness ==
  /\ pc = "while" /\ files0.weights.exists
  /\ policy.updates >= 2 /\ target = InitialPolicy /\ target # policy

\* C16: a `while not done` loop started from reset(), in train() and in the
\* final rollout of main, makes at least 1 and at most 400 step calls: it is
\* never done before the first call, it is done after the 400th, and on an
\* origin grid without contamination it is done after the first.
C16_EpisodeBounded ==
  pc \in {"while", "rollout"} =>
    /\ env.steps <= 400
    /\ done => env.steps >= 1
    /\ env.steps = 400 => done
    /\ ((\A c \in Cells(env.N) : env.grid0[c] = 0) /\ env.steps >= 1) => done

\* an episode of the training loop that ran into the horizon
C16_Witness ==
  pc = "while" /\ done /\ env.steps = 400 /\ (\E c \in Cells(env.N) : env.grid[c] = 1)

\* C17: step accepts calls after the episode has ended, and once a step call
\* has returned done = true every later step call before the next reset
\* returns done = true as well.
C17_DoneStable ==
  [][(IsStep /\ DoneFlag /\ call'[1] = "step") => ret'[3]]_vars

\* a step call made after the call that reached the horizon
C17_Witness ==
  IsStep /\ pre.steps = 400 /\ env.steps = 401 /\ (\E c \in Cells(env.N) : env.grid[c] = 1)

\* C18: in an episode on a grid with D contaminated cells the number of step
\* calls that returned the clean reward is at most D and equals D minus the
\* current contaminated-cell count, and a step returns done = true with a
\* step count below 400 only when that number is D.
C18_CleanRewardCount ==
  LET D == Cardinality({c \in Cells(env.N) : env.grid0[c] = 1})
      left == Cardinality({c \in Cells(env.N) : env.grid[c] = 1})
  IN  /\ cleans <= D
      /\ cleans = D - left
      /\ (IsStep /\ DoneFlag /\ env.steps < 400) => cleans = D

\* an episode that ended early with the second of two clean rewards
C18_Witness ==
  IsStep /\ DoneFlag /\ env.steps < 400 /\ cleans = 2 /\ Reward = 5000

\* C19: in training mode one transition is pushed per environment step and
\* the buffer is never cleared, so the occupancy is min(cumulative step count,
\* capacity), and the first learn step of the run is at cumulative step 64.
C19_BufferOccupancy ==
  (~demo /\ Running) =>
    /\ BufLen(rb) = IF steps < 40000 THEN steps ELSE 40000
    /\ (policy.updates >= 1) = (steps >= 64)

\* the first learn step
C19_Witness ==
  ~demo /\ pc = "while" /\ steps = 64 /\ policy.updates = 1 /\ BufLen(rb) = 64

=============================================================================
